---- MODULE Spec2Model ----
(***************************************************************************)
(* State-machine model of the HNSW vector collection                       *)
(* (src/src/func/collection.rs): the vector store (slots, vectors, data,   *)
(* count, dimension), the layer graph (base layer and upper layers) and    *)
(* the operations new / build / insert / delete / update / get / search.   *)
(*                                                                         *)
(* Identifiers are u32 in the source; here the id width is scaled down to  *)
(* IdBits bits, so U32_MAX == 2^IdBits - 1 and INVALID == U32_MAX.         *)
(* A panic of the Rust code is an outcome of its own ("panic"): the        *)
(* fields hold whatever the handler had written before the panic and the   *)
(* collection is not used afterwards.                                      *)
(***************************************************************************)
EXTENDS Integers, Sequences, FiniteSets, TLC

\* ------------------------------------------------------------------------
\* Bounds of the model
\* ------------------------------------------------------------------------
MaxNodes == 3
MaxN == 2
MaxRouteLen == 4
MaxBuild == 4
MaxConns == 2
MaxSends == 2

\* ------------------------------------------------------------------------
\* Program constants and configuration
\* ------------------------------------------------------------------------
\* The id width, the fan-out M (a const generic, 32 by default) and the
\* Config values (defaults 40, 15, 0.3) are scaled down so that the record
\* limit, full neighbour lists and upper layers occur in small collections;
\* ml is the fraction MlNum / MlDen.
IdBits == 3
U32_MAX == (2 ^ IdBits) - 1
INVALID == U32_MAX
M == 2
ef_construction == 3
ef_search == 3
UpperEf == 5
MlNum == 1
MlDen == 2

is_valid(id) == id # INVALID

NoRecord == [vector |-> << >>, data |-> "-"]

\* The records callers pass: three of dimension 1 and one of dimension 2.
R0 == [vector |-> <<0>>, data |-> "a"]
R1 == [vector |-> <<1>>, data |-> "b"]
R3 == [vector |-> <<3>>, data |-> "a"]
R02 == [vector |-> <<0, 2>>, data |-> "b"]

Records == {R0, R1, R3, R02}

Queries == { <<0>>, <<2>> }

\* The ids a caller may pass: every u32 value, INVALID included.
Ids == 0 .. U32_MAX

\* ------------------------------------------------------------------------
\* Small sequence helpers
\* ------------------------------------------------------------------------
Min2(a, b) == IF a <= b THEN a ELSE b
Max2(a, b) == IF a >= b THEN a ELSE b

Take(s, n) == SubSeq(s, 1, Min2(n, Len(s)))

InsertAt(s, i, x) == SubSeq(s, 1, i - 1) \o <<x>> \o SubSeq(s, i, Len(s))

Reverse(s) == [i \in 1 .. Len(s) |-> s[Len(s) + 1 - i]]

\* ------------------------------------------------------------------------
\* Distance and ordering
\* ------------------------------------------------------------------------
RECURSIVE SumSq(_, _, _)
SumSq(a, b, n) ==
  IF n = 0 THEN 0
  ELSE (a[n] - b[n]) * (a[n] - b[n]) + SumSq(a, b, n - 1)

\* Squared Euclidean distance over the zipped components.
Distance(a, b) == SumSq(a, b, Min2(Len(a), Len(b)))

Candidate(id, q, vecs) == [distance |-> Distance(q, vecs[id]), vector_id |-> id]

\* Total order on candidates: by distance, ties by id.
CandLess(a, b) ==
  \/ a.distance < b.distance
  \/ a.distance = b.distance /\ a.vector_id < b.vector_id

\* ------------------------------------------------------------------------
\* Nodes
\* ------------------------------------------------------------------------
DefaultNode == [i \in 1 .. M |-> INVALID]

\* BaseNode::set (0-based index).
NodeSet(node, index, id) == [node EXCEPT ![index + 1] = id]

\* BaseNode::insert (0-based index): shift later entries right, evict last.
NodeInsert(node, index, id) ==
  IF index >= M THEN node
  ELSE Take(InsertAt(node, index + 1, id), M)

\* UpperNode::from_zero
FromZero(node) == node

\* LayerID::descend: n, n-1, ..., 0
Descend(n) == [i \in 1 .. n + 1 |-> n + 1 - i]

\* ------------------------------------------------------------------------
\* Search engine
\* ------------------------------------------------------------------------
NewSearch(ef) ==
  [visited |-> {}, candidates |-> {}, nearest |-> << >>, ef |-> ef,
   panic |-> FALSE]

\* Number of entries of the sorted sequence `nearest` that precede c.
InsertionIndex(nearest, c) ==
  Cardinality({i \in 1 .. Len(nearest) : CandLess(nearest[i], c)})

\* Search::push
SPush(s, id, q, vecs) ==
  IF id \in s.visited THEN s
  ELSE LET c == Candidate(id, q, vecs)
           index == InsertionIndex(s.nearest, c)
       IN IF index < s.ef
          THEN [s EXCEPT !.visited = @ \cup {id},
                         !.nearest = Take(InsertAt(@, index + 1, c), s.ef),
                         !.candidates = @ \cup {c}]
          ELSE [s EXCEPT !.visited = @ \cup {id}]

RECURSIVE SPushAll(_, _, _, _)
SPushAll(s, ids, q, vecs) ==
  IF ids = << >> THEN s
  ELSE SPushAll(SPush(s, Head(ids), q, vecs), Tail(ids), q, vecs)

\* The live neighbours of a node, in list order (at most `links` entries).
LiveNeighbors(node, vecs, links) ==
  SelectSeq(Take(node, links), LAMBDA id : is_valid(id) /\ id \in DOMAIN vecs)

MinCandidate(cs) == CHOOSE c \in cs : \A d \in cs : c = d \/ CandLess(c, d)

\* The loop of Search::search ends: no candidate is left, or the nearest
\* candidate is farther than the farthest of a full result list.
SStops(s) ==
  \/ s.panic
  \/ s.candidates = {}
  \/ LET c == MinCandidate(s.candidates)
         n == Len(s.nearest)
     IN n >= s.ef /\ n > 0 /\ c.distance > s.nearest[n].distance

\* One iteration of the loop: the nearest candidate is taken and the live
\* neighbours of its node are pushed.
SExpand(s, layer, q, vecs, links) ==
  LET c == MinCandidate(s.candidates)
  IN IF c.vector_id >= Len(layer)
     THEN [s EXCEPT !.panic = TRUE]
     ELSE SPushAll([s EXCEPT !.candidates = @ \ {c}],
                   LiveNeighbors(layer[c.vector_id + 1], vecs, links),
                   q, vecs)

\* Search::search over one layer (a slice of nodes indexed by VectorID).
RECURSIVE SSearch(_, _, _, _, _)
SSearch(s, layer, q, vecs, links) ==
  IF SStops(s) THEN s
  ELSE SSearch(SExpand(s, layer, q, vecs, links), layer, q, vecs, links)

\* Search::cull
SCull(s) ==
  LET kept == Take(s.nearest, M)
  IN [s EXCEPT !.nearest = kept,
               !.candidates = {kept[i] : i \in 1 .. Len(kept)},
               !.visited = {kept[i].vector_id : i \in 1 .. Len(kept)}]

\* Search::select_simple / Search::iter
SelectSimple(s) == s.nearest

\* ------------------------------------------------------------------------
\* Index construction: placement of one node (IndexConstruction::insert)
\* ------------------------------------------------------------------------
Cmp(a, b) == IF a < b THEN "Less" ELSE IF a > b THEN "Greater" ELSE "Equal"

\* A comparator that places every candidate after every entry.
Ordering_AlwaysLess(id, distance, old, vecs) == "Less"

\* The `ordering` closure: the probed entry `id` of the neighbour's list
\* against the candidate's distance. Indexing the vectors map with an id
\* that is not a key panics.
Ordering(id, distance, old, vecs) ==
  IF ~is_valid(id) THEN "Greater"
  ELSE IF id \notin DOMAIN vecs THEN "Panic"
  ELSE Cmp(distance, Distance(old, vecs[id]))

\* slice::binary_search_by(..).unwrap_or_else(|e| e): the index found, or
\* -1 when the comparator panicked on a probed entry.
RECURSIVE BinarySearchBy(_, _, _, _, _, _)
BinarySearchBy(node, left, right, distance, old, vecs) ==
  IF left >= right THEN left
  ELSE LET mid == left + ((right - left) \div 2)
           c == Ordering(node[mid + 1], distance, old, vecs)
       IN CASE c = "Panic" -> -1
            [] c = "Less" -> BinarySearchBy(node, mid + 1, right, distance, old, vecs)
            [] c = "Greater" -> BinarySearchBy(node, left, mid, distance, old, vecs)
            [] OTHER -> mid

\* The first valid vector id to seed the search from: the smallest key of
\* the vectors map among 0 .. vectors.len()-1; -1 when find_first is None.
LowKeys(vecs) == {i \in 0 .. Cardinality(DOMAIN vecs) - 1 : i \in DOMAIN vecs}

ValidSeed(vecs) ==
  IF LowKeys(vecs) = {} THEN -1
  ELSE CHOOSE i \in LowKeys(vecs) : \A j \in LowKeys(vecs) : i <= j

\* The walk over the layers, top layer first (k: position in Descend).
RECURSIVE Walk(_, _, _, _, _, _, _, _)
Walk(s, k, top_layer, layer, base, uppers, vector, vecs) ==
  IF s.panic \/ k > top_layer + 1 THEN s
  ELSE LET current_layer == Descend(top_layer)[k]
           s1 == IF current_layer <= layer
                 THEN [s EXCEPT !.ef = ef_construction] ELSE s
       IN IF current_layer > layer
          THEN Walk(SCull(SSearch(s1, uppers[current_layer], vector, vecs, M)),
                    k + 1, top_layer, layer, base, uppers, vector, vecs)
          ELSE SSearch(s1, base, vector, vecs, M)

\* The loop over the selected neighbours (i: 0-based position).
RECURSIVE Link(_, _, _, _, _)
Link(base, candidates, i, vector_id, vecs) ==
  IF i >= Len(candidates) THEN [base |-> base, panic |-> FALSE]
  ELSE LET vid == candidates[i + 1].vector_id
           old == vecs[vid]
           distance == candidates[i + 1].distance
           index == BinarySearchBy(base[vid + 1], 0, M, distance, old, vecs)
       IN IF index < 0 THEN [base |-> base, panic |-> TRUE]
          ELSE LET b1 == [base EXCEPT ![vid + 1] = NodeInsert(@, index, vector_id)]
                   b2 == [b1 EXCEPT ![vector_id + 1] = NodeSet(@, i, vector_id)]
               IN Link(b2, candidates, i + 1, vector_id, vecs)

\* IndexConstruction::insert
PlaceNode(base, uppers, vecs, top_layer, vector_id, layer) ==
  LET vector == vecs[vector_id]
      valid_id == ValidSeed(vecs)
  IN IF valid_id < 0 THEN [base |-> base, panic |-> TRUE]
     ELSE LET s0 == SPush(NewSearch(UpperEf), valid_id, vector, vecs)
              s == Walk(s0, 1, top_layer, layer, base, uppers, vector, vecs)
              candidates == Take(SelectSimple(s), M)
          IN IF s.panic THEN [base |-> base, panic |-> TRUE]
             ELSE Link(base, candidates, 0, vector_id, vecs)

\* ------------------------------------------------------------------------
\* The key-value route handler (src/src/db/routes/kvs.rs)
\* ------------------------------------------------------------------------
\* A string is a sequence of characters; routes are strings over Chars.
Chars == {"/", "a"}

RouteStrings == UNION {[1 .. n -> Chars] : n \in 0 .. MaxRouteLen}

\* str::split("/"): the parts between the separators, empty parts included.
RECURSIVE SplitFrom(_, _, _)
SplitFrom(str, i, part) ==
  IF i > Len(str) THEN <<part>>
  ELSE IF str[i] = "/" THEN <<part>> \o SplitFrom(str, i + 1, << >>)
  ELSE SplitFrom(str, i + 1, Append(part, str[i]))

Split(str) == SplitFrom(str, 1, << >>)

Last(s) == s[Len(s)]

\* JSON values of a request body field: absent, a number, a string, or an
\* object with the members "embedding" and "data" given as JSON text.
JAbsent == [kind |-> "absent", str |-> << >>, embedding |-> "-", data |-> "-"]
JNumber == [kind |-> "number", str |-> << >>, embedding |-> "-", data |-> "-"]
JString(str) == [kind |-> "string", str |-> str, embedding |-> "-", data |-> "-"]
JObject(e, d) == [kind |-> "object", str |-> << >>, embedding |-> e, data |-> d]

BodyKeys ==
  {JAbsent, JNumber, JString(<<"a">>), JString(<<"a", "a">>), JString(<< >>)}

BodyValues ==
  {JAbsent, JString(<<"a">>)}
    \cup {JObject(e, d) : e \in {"[0.0]", "[1.0]", "\"x\""}, d \in {"{}", "-"}}

\* db::Value as the store holds it: the embedding and the data map.
ValueOf(embedding) == [embedding |-> embedding, data |-> {}]

\* serde_json::from_value::<Value>: the members parsed, or an error.
FromValue(j) ==
  IF j.kind = "object" /\ j.data = "{}" /\ j.embedding \in {"[0.0]", "[1.0]"}
  THEN [ok |-> TRUE,
        value |-> ValueOf(IF j.embedding = "[0.0]" THEN <<0>> ELSE <<1>>)]
  ELSE [ok |-> FALSE, value |-> ValueOf(<< >>)]

\* serde_json::to_string(&Value): the JSON text of a value.
to_string(value) ==
  [embedding |-> IF value.embedding = <<0>> THEN "[0.0]" ELSE "[1.0]",
   data |-> "{}"]

ErrorBody(msg) == [error |-> msg]

Response(status, body) == [status |-> status, body |-> body]

\* The store behind db::Server: get, set (which may refuse) and delete.
StoreGet(store_kv, key) ==
  IF key \in DOMAIN store_kv THEN [some |-> TRUE, value |-> store_kv[key]]
  ELSE [some |-> FALSE, value |-> ValueOf(<< >>)]

StoreSet(store_kv, key, value) ==
  [k \in DOMAIN store_kv \cup {key} |-> IF k = key THEN value ELSE store_kv[k]]

StoreDelete(store_kv, key) == [k \in DOMAIN store_kv \ {key} |-> store_kv[k]]

\* A key test that only looks at the last part.
KeyMissing_EmptyOnly(route_parts) == Last(route_parts) = << >>

\* key.is_empty() || route_parts.len() < 3
KeyMissing(route_parts) == Last(route_parts) = << >> \/ Len(route_parts) < 3

get_key(store_kv, route) ==
  LET route_parts == Split(route)
      key == Last(route_parts)
      value == StoreGet(store_kv, key)
  IN IF KeyMissing(route_parts)
     THEN Response("400", ErrorBody("The key is required."))
     ELSE IF ~value.some
     THEN Response("404", ErrorBody("The value is not found."))
     ELSE Response("200", to_string(value.value))

\* post: the response and the store afterwards; `accepts` is the outcome of
\* server.set.
post(store_kv, body, accepts) ==
  IF body.key.kind = "absent" \/ body.value.kind = "absent"
  THEN [response |-> Response("400", ErrorBody("Both key and value are required.")),
        kv |-> store_kv]
  ELSE IF body.key.kind # "string"
  THEN [response |-> Response("400", ErrorBody("The key must be a string.")),
        kv |-> store_kv]
  ELSE IF ~FromValue(body.value).ok
  THEN [response |-> Response("400", ErrorBody("The value provided is invalid.")),
        kv |-> store_kv]
  ELSE IF ~accepts
  THEN [response |-> Response("400", ErrorBody("set failed")), kv |-> store_kv]
  ELSE [response |-> Response("201", to_string(FromValue(body.value).value)),
        kv |-> StoreSet(store_kv, body.key.str, FromValue(body.value).value)]

delete(store_kv, route) ==
  LET route_parts == Split(route)
      key == Last(route_parts)
  IN IF KeyMissing(route_parts)
     THEN [response |-> Response("400", ErrorBody("The key is missing.")),
           kv |-> store_kv]
     ELSE [response |-> Response("204", ErrorBody("")),
           kv |-> StoreDelete(store_kv, key)]

NotAllowed == Response("not_allowed", ErrorBody(""))

handler(store_kv, req) ==
  CASE req.method = "get" ->
         [response |-> get_key(store_kv, req.route), kv |-> store_kv]
    [] req.method = "post" -> post(store_kv, req.body, req.accepts)
    [] req.method = "delete" -> delete(store_kv, req.route)
    [] OTHER -> [response |-> NotAllowed, kv |-> store_kv]

Methods == {"get", "post", "delete", "put", "GET"}

NoBody == [key |-> JAbsent, value |-> JAbsent]

\* The requests explored: every route for the methods that read the route,
\* every body for post.
Requests ==
  {[method |-> m, route |-> r, body |-> NoBody, accepts |-> TRUE] :
     m \in Methods \ {"post"}, r \in RouteStrings}
  \cup
  {[method |-> "post", route |-> <<"/", "a">>, body |-> [key |-> k, value |-> v],
    accepts |-> a] : k \in BodyKeys, v \in BodyValues, a \in BOOLEAN}

VARIABLES
  kv,             \* the key-value store of the server
  request,        \* the last request handled
  response        \* the response to it

kvs == <<kv, request, response>>

NoRequest == [method |-> "-", route |-> << >>, body |-> NoBody, accepts |-> TRUE]

\* A started server: the store holds the key the tests read.
KvsInit ==
  /\ kv = [k \in {<<"a">>} |-> ValueOf(<<0>>)]
  /\ request = NoRequest
  /\ response = Response("-", ErrorBody(""))

\* ------------------------------------------------------------------------
\* State of one bulk build with its parallel placement tasks
\* ------------------------------------------------------------------------
VARIABLES
  mode,           \* which constructor runs: "collection" or "index"
  input,          \* the coordinates of the vectors given (dimension 1)
  nodes,          \* the base layer under construction: &[RwLock<BaseNode>]
  par_layers,     \* upper_layers under construction
  range_ix,       \* position in `ranges` of the layer being started
  tasks,          \* per vector id: the placement task's position and locals
  held,           \* nodes whose exclusive lock is held across steps
  started         \* the placements started so far: (id, layer)

par == <<mode, input, nodes, par_layers, range_ix, tasks, held, started>>

\* No bulk build is running.
ParIdle ==
  /\ mode = "collection"
  /\ input = << >>
  /\ nodes = << >>
  /\ par_layers = << >>
  /\ range_ix = 1
  /\ tasks = << >>
  /\ held = {}
  /\ started = {}

\* ------------------------------------------------------------------------
\* State of one IndexGraph::build (the relabelling of its input)
\* ------------------------------------------------------------------------
VARIABLES
  ix_len,         \* vectors.len() of the input
  draws,          \* the values rng.gen_range has returned so far
  shuffled,       \* Vec<(VectorID, usize)>
  output,         \* Vec<VectorID>: the new id of each input index
  ix_vectors,     \* the relabelled vectors, each with its input index
  ix_data,        \* the relabelled payloads
  ix_pc,          \* position in build
  ix_result       \* the last search result mapped: payload and vector used

ix == <<ix_len, draws, shuffled, output, ix_vectors, ix_data, ix_pc, ix_result>>

NoResult == [id |-> INVALID, data |-> INVALID, from |-> INVALID]

\* No IndexGraph is being built.
IxIdle ==
  /\ ix_len = 0
  /\ draws = << >>
  /\ shuffled = << >>
  /\ output = << >>
  /\ ix_vectors = << >>
  /\ ix_data = << >>
  /\ ix_pc = "done"
  /\ ix_result = NoResult

\* ------------------------------------------------------------------------
\* State of the TCP key-value server (src/src/db/server.rs)
\* ------------------------------------------------------------------------
VARIABLES
  tcp_conns,      \* per client connection: its state, unread data, replies
  backlog,        \* connections made and not yet returned by accept()
  serving,        \* the connection handle_connection is awaited on, or {}
  tcp_kv,         \* Arc<Mutex<HashMap<String, String>>>
  spawned,        \* the futures given to spawn so far
  crashed         \* serve() has panicked

tcp == <<tcp_conns, backlog, serving, tcp_kv, spawned, crashed>>

\* No TCP server is running.
TcpIdle ==
  /\ tcp_conns = << >>
  /\ backlog = << >>
  /\ serving = {}
  /\ tcp_kv = << >>
  /\ spawned = 0
  /\ crashed = FALSE

\* The state outside the collection.
side == <<kvs, par, ix, tcp>>

\* ------------------------------------------------------------------------
\* State of one collection
\* ------------------------------------------------------------------------
VARIABLES
  slots,          \* Vec<VectorID>: slot i holds i or INVALID
  vectors,        \* HashMap<VectorID, Vector>
  data,           \* HashMap<VectorID, D>
  base_layer,     \* Vec<BaseNode<M>>
  upper_layers,   \* Vec<Vec<UpperNode<M>>>
  count,          \* usize
  dimension,      \* usize
  ret             \* the last call: operation, arguments and outcome

vars == <<slots, vectors, data, base_layer, upper_layers, count, dimension, ret,
          side>>

store == <<slots, vectors, data, count, dimension>>
graph == <<base_layer, upper_layers>>

EmptyMap == [k \in {} |-> 0]

MapPut(m, k, v) == [x \in (DOMAIN m) \cup {k} |-> IF x = k THEN v ELSE m[x]]
MapRemove(m, k) == [x \in (DOMAIN m) \ {k} |-> m[x]]

Ret(op, status, id, rec, out) ==
  [op |-> op, status |-> status, id |-> id, rec |-> rec, out |-> out]

\* The collection exists and no call on it has panicked.
Usable ==
  /\ ret.status # "panic"
  /\ ~(ret.op = "build" /\ ret.status = "err")

\* Collection::new
Init ==
  /\ slots = << >>
  /\ vectors = EmptyMap
  /\ data = EmptyMap
  /\ base_layer = << >>
  /\ upper_layers = << >>
  /\ count = 0
  /\ dimension = 0
  /\ ret = Ret("new", "ok", INVALID, NoRecord, << >>)
  /\ KvsInit
  /\ ParIdle
  /\ IxIdle
  /\ TcpIdle

\* Collection::contains
contains(id) == id \in DOMAIN vectors

\* Collection::len
len == count

\* ------------------------------------------------------------------------
\* Collection::insert_to_layers, Collection::delete_from_layers
\* ------------------------------------------------------------------------
\* A placement that starts at layer 0 and walks down the upper layers.
insert_to_layers_Walk(base, uppers, vecs, id) ==
  LET pushed == Append(base, DefaultNode)
      top_layer == Len(uppers)
      placed == PlaceNode(pushed, uppers, vecs, top_layer, id, 0)
  IN [base |-> IF placed.panic THEN pushed ELSE placed.base,
      panic |-> placed.panic]

insert_to_layers(base, uppers, vecs, id) ==
  LET pushed == Append(base, DefaultNode)
      top_layer == Len(uppers)
      placed == PlaceNode(pushed, uppers, vecs, top_layer, id, top_layer)
  IN [base |-> IF placed.panic THEN pushed ELSE placed.base,
      panic |-> placed.panic]

\* node.iter().position(|x| x == id), then set(index, INVALID)
ClearFirst(node, id) ==
  IF \E i \in 1 .. Len(node) : node[i] = id
  THEN LET index == CHOOSE i \in 1 .. Len(node) :
                      node[i] = id /\ \A j \in 1 .. i - 1 : node[j] # id
       IN [node EXCEPT ![index] = INVALID]
  ELSE node

\* The loop over the upper layers, top layer first.
RECURSIVE ClearUppers(_, _, _)
ClearUppers(uppers, layer, id) ==
  IF layer = 0 THEN [uppers |-> uppers, panic |-> FALSE]
  ELSE IF id >= Len(uppers[layer])
  THEN [uppers |-> uppers, panic |-> TRUE]
  ELSE ClearUppers([uppers EXCEPT ![layer][id + 1] = ClearFirst(@, id)],
                   layer - 1, id)

\* A removal that also clears the id from the rows of the other nodes.
delete_from_layers_Unlink(base, uppers, id) ==
  IF id >= Len(base)
  THEN [base |-> base, uppers |-> uppers, panic |-> TRUE]
  ELSE LET b1 == [j \in 1 .. Len(base) |-> ClearFirst(base[j], id)]
           u == ClearUppers(uppers, Len(uppers), id)
       IN [base |-> b1, uppers |-> u.uppers, panic |-> u.panic]

delete_from_layers(base, uppers, id) ==
  IF id >= Len(base)
  THEN [base |-> base, uppers |-> uppers, panic |-> TRUE]
  ELSE LET b1 == [base EXCEPT ![id + 1] = ClearFirst(@, id)]
           u == ClearUppers(uppers, Len(uppers), id)
       IN [base |-> b1, uppers |-> u.uppers, panic |-> u.panic]

\* ------------------------------------------------------------------------
\* Collection::build
\* ------------------------------------------------------------------------
\* The sizing loop: the (size, cumulative) pairs in push order, the final
\* (len, len) included.
RECURSIVE SizeLoop(_, _)
SizeLoop(length, layers) ==
  LET next == (length * MlNum) \div MlDen
  IN IF next < M THEN Append(layers, <<length, length>>)
     ELSE SizeLoop(next, Append(layers, <<length - next, length>>))

LayerSizes(n) == Reverse(SizeLoop(n, << >>))

\* Ranges that do not skip the entry point.
Ranges_FromZero(n) ==
  LET sizes == LayerSizes(n)
  IN [i \in 1 .. Len(sizes) |->
        [layer |-> Len(sizes) - i,
         start |-> sizes[i][2] - sizes[i][1],
         end |-> sizes[i][2]]]

\* ranges[i] = (layer_id, start, end): the ids start .. end-1 are placed at
\* layer_id.
Ranges(n) ==
  LET layers == LayerSizes(n)
      num_layers == Len(layers)
  IN [i \in 1 .. num_layers |->
        LET size == layers[i][1]
            cumulative == layers[i][2]
            start == cumulative - size
        IN [layer |-> num_layers - i,
            start |-> Max2(start, 1),
            end |-> cumulative]]

\* The tasks of one range run in parallel; each placement is taken as one
\* step, in the order given by `rank`.
RECURSIVE PlaceRange(_, _, _, _, _, _, _)
PlaceRange(base, uppers, vecs, top_layer, layer, pending, rank) ==
  IF pending = {} THEN [base |-> base, panic |-> FALSE]
  ELSE LET id == CHOOSE i \in pending : \A j \in pending : rank[i] <= rank[j]
           placed == PlaceNode(base, uppers, vecs, top_layer, id, layer)
       IN IF placed.panic THEN placed
          ELSE PlaceRange(placed.base, uppers, vecs, top_layer, layer,
                          pending \ {id}, rank)

RECURSIVE BuildLayers(_, _, _, _, _, _, _)
BuildLayers(base, uppers, vecs, top_layer, ranges, k, rank) ==
  IF k > Len(ranges) THEN [base |-> base, uppers |-> uppers, panic |-> FALSE]
  ELSE LET range == ranges[k]
           placed == PlaceRange(base, uppers, vecs, top_layer, range.layer,
                                range.start .. range.end - 1, rank)
           copied == IF range.layer # 0
                     THEN [uppers EXCEPT ![range.layer] =
                             [j \in 1 .. range.end |-> FromZero(placed.base[j])]]
                     ELSE uppers
       IN IF placed.panic
          THEN [base |-> placed.base, uppers |-> uppers, panic |-> TRUE]
          ELSE BuildLayers(placed.base, copied, vecs, top_layer, ranges,
                           k + 1, rank)

\* Record lists given to build: empty, without and with an upper layer, one
\* record short of the record limit, of inconsistent dimension, at the limit.
BuildInputs ==
  { << >>,
    <<R1, R3>>,
    <<R0, R1, R3, R1>>,
    [i \in 1 .. U32_MAX - 1 |-> IF i % 2 = 1 THEN R0 ELSE R1],
    <<R0, R02>>,
    [i \in 1 .. U32_MAX |-> R0] }

\* The orders in which the parallel tasks of a build may run (a rejected
\* input starts no task).
Ranks(n) ==
  IF n >= U32_MAX THEN {[i \in 0 .. n - 1 |-> i]}
  ELSE {f \in [0 .. n - 1 -> 0 .. n - 1] :
          \A i, j \in 0 .. n - 1 : i # j => f[i] # f[j]}

\* ret.out of a build holds the records given to it.
Build(records, rank) ==
  /\ ret.op = "new"
  /\ UNCHANGED side
  /\ IF records = << >>
     THEN /\ ret' = Ret("build", "ok", INVALID, NoRecord, records)
          /\ UNCHANGED <<store, graph>>
     ELSE IF Len(records) >= U32_MAX
             \/ \E i \in 1 .. Len(records) :
                  Len(records[i].vector) # Len(records[1].vector)
     THEN /\ ret' = Ret("build", "err", INVALID, NoRecord, records)
          /\ UNCHANGED <<store, graph>>
     ELSE LET n == Len(records)
              ranges == Ranges(n)
              top_layer == Len(ranges) - 1
              vecs == [i \in 0 .. n - 1 |-> records[i + 1].vector]
              built == BuildLayers([i \in 1 .. n |-> DefaultNode],
                                   [i \in 1 .. top_layer |-> << >>],
                                   vecs, top_layer, ranges, 1, rank)
          IN IF built.panic
             THEN /\ ret' = Ret("build", "panic", INVALID, NoRecord, records)
                  /\ UNCHANGED <<store, graph>>
             ELSE /\ vectors' = vecs
                  /\ data' = [i \in 0 .. n - 1 |-> records[i + 1].data]
                  /\ base_layer' = built.base
                  /\ upper_layers' = built.uppers
                  /\ slots' = [i \in 1 .. n |-> i - 1]
                  /\ dimension' = Len(records[1].vector)
                  /\ count' = n
                  /\ ret' = Ret("build", "ok", INVALID, NoRecord, records)

\* ------------------------------------------------------------------------
\* Collection::insert
\* ------------------------------------------------------------------------
\* A limit check that rejects one slot early.
CapacityReached_Early == Len(slots) >= U32_MAX - 1

\* The record limit check.
CapacityReached == Len(slots) = U32_MAX

DimensionMismatch_LongerOnly(record) ==
  vectors # EmptyMap /\ Len(record.vector) > dimension

\* The dimension check (the first record of an empty map sets the dimension).
DimensionMismatch(record) ==
  vectors # EmptyMap /\ Len(record.vector) # dimension

NextId_FromCount == count

\* The new vector id: the next available slot.
NextId == Len(slots)

\* Inserts are explored on collections of fewer than MaxNodes nodes and on
\* collections at the record limit.
MayGrow == Len(base_layer) < MaxNodes \/ Len(slots) >= U32_MAX - 1

Insert(record) ==
  /\ Usable
  /\ UNCHANGED side
  /\ MayGrow
  /\ IF CapacityReached
     THEN /\ ret' = Ret("insert", "err", INVALID, record, << >>)
          /\ UNCHANGED <<store, graph>>
     ELSE IF DimensionMismatch(record)
     THEN /\ ret' = Ret("insert", "err", INVALID, record, << >>)
          /\ UNCHANGED <<store, graph>>
     ELSE LET id == NextId
              vecs == MapPut(vectors, id, record.vector)
              placed == insert_to_layers(base_layer, upper_layers, vecs, id)
          IN /\ dimension' = IF vectors = EmptyMap THEN Len(record.vector)
                             ELSE dimension
             /\ vectors' = vecs
             /\ data' = MapPut(data, id, record.data)
             /\ slots' = Append(slots, id)
             /\ count' = count + 1
             /\ base_layer' = placed.base
             /\ UNCHANGED upper_layers
             /\ ret' = Ret("insert", IF placed.panic THEN "panic" ELSE "ok",
                           id, record, << >>)

\* ------------------------------------------------------------------------
\* Collection::delete
\* ------------------------------------------------------------------------
NotLive_NeverIssued(id) == id >= Len(slots)

\* The guard of delete and update: the id is not in the collection.
NotLive(id) == ~contains(id)

SlotsAfterDelete_Shrink(id) ==
  IF id + 1 = Len(slots) THEN SubSeq(slots, 1, id)
  ELSE [slots EXCEPT ![id + 1] = INVALID]

\* self.slots[id] = INVALID
SlotsAfterDelete(id) == [slots EXCEPT ![id + 1] = INVALID]

DataAfterDelete_Kept(id) == data

\* self.data.remove(id)
DataAfterDelete(id) == MapRemove(data, id)

CountAfterDelete_Stale == count

\* self.count -= 1
CountAfterDelete == count - 1

Delete(id) ==
  /\ Usable
  /\ UNCHANGED side
  /\ IF NotLive(id)
     THEN /\ ret' = Ret("delete", "err", id, NoRecord, << >>)
          /\ UNCHANGED <<store, graph>>
     ELSE LET cleared == delete_from_layers(base_layer, upper_layers, id)
          IN /\ base_layer' = cleared.base
             /\ upper_layers' = cleared.uppers
             /\ IF cleared.panic
                THEN /\ ret' = Ret("delete", "panic", id, NoRecord, << >>)
                     /\ UNCHANGED store
                ELSE /\ vectors' = MapRemove(vectors, id)
                     /\ data' = DataAfterDelete(id)
                     /\ slots' = SlotsAfterDelete(id)
                     /\ count' = CountAfterDelete
                     /\ UNCHANGED dimension
                     /\ ret' = Ret("delete", "ok", id, NoRecord, << >>)

\* ------------------------------------------------------------------------
\* Collection::update
\* ------------------------------------------------------------------------
\* Updates are explored on collections of fewer than MaxNodes nodes and as
\* the first call on a built collection of at most MaxNodes + 1 nodes that
\* has upper layers.
MayUpdate ==
  \/ Len(base_layer) < MaxNodes
  \/ (upper_layers # << >> /\ ret.op = "build"
        /\ Len(base_layer) <= MaxNodes + 1)

Update(id, record) ==
  /\ Usable
  /\ UNCHANGED side
  /\ MayUpdate
  /\ IF NotLive(id)
     THEN /\ ret' = Ret("update", "err", id, record, << >>)
          /\ UNCHANGED <<store, graph>>
     ELSE LET cleared == delete_from_layers(base_layer, upper_layers, id)
          IN IF cleared.panic
             THEN /\ base_layer' = cleared.base
                  /\ upper_layers' = cleared.uppers
                  /\ ret' = Ret("update", "panic", id, record, << >>)
                  /\ UNCHANGED store
             ELSE LET vecs == MapPut(vectors, id, record.vector)
                      placed == insert_to_layers(cleared.base, cleared.uppers,
                                                 vecs, id)
                  IN /\ vectors' = vecs
                     /\ data' = MapPut(data, id, record.data)
                     /\ base_layer' = placed.base
                     /\ upper_layers' = cleared.uppers
                     /\ UNCHANGED <<slots, count, dimension>>
                     /\ ret' = Ret("update",
                                   IF placed.panic THEN "panic" ELSE "ok",
                                   id, record, << >>)

\* ------------------------------------------------------------------------
\* Collection::get
\* ------------------------------------------------------------------------
get(id) ==
  IF ~contains(id) THEN [status |-> "err", out |-> << >>]
  ELSE [status |-> "ok",
        out |-> << [vector |-> vectors[id], data |-> data[id]] >>]

Get(id) ==
  /\ Usable
  /\ UNCHANGED side
  /\ ret' = Ret("get", get(id).status, id, NoRecord, get(id).out)
  /\ UNCHANGED <<store, graph>>

\* ------------------------------------------------------------------------
\* Collection::search
\* ------------------------------------------------------------------------
ValidSlots == {i \in 0 .. Len(slots) - 1 : is_valid(slots[i + 1])}

\* The loop over LayerID(upper_layers.len()).descend()
RECURSIVE SearchLayers(_, _, _)
SearchLayers(s, layer, q) ==
  IF s.panic THEN s
  ELSE IF layer = 0
  THEN SSearch([s EXCEPT !.ef = ef_search], base_layer, q, vectors, M)
  ELSE SearchLayers(
         SCull(SSearch([s EXCEPT !.ef = UpperEf], upper_layers[layer], q,
                       vectors, M)),
         layer - 1, q)

\* .take(n) with one result too many.
TakeN_OffByOne(out, n) == Take(out, n + 1)

\* .take(n) of the mapped results.
TakeN(out, n) == Take(out, n)

MapResult(c) ==
  [id |-> c.vector_id, distance |-> c.distance, data |-> data[c.vector_id]]

\* An emptiness test that never answers "empty".
SearchEmpty_Never == FALSE

\* self.vectors.is_empty()
SearchEmpty == vectors = EmptyMap

search(q, n) ==
  IF SearchEmpty THEN [status |-> "ok", out |-> << >>]
  ELSE IF ValidSlots = {} THEN [status |-> "err", out |-> << >>]
  ELSE LET vector_id == CHOOSE i \in ValidSlots : \A j \in ValidSlots : i <= j
           s0 == SPush(NewSearch(UpperEf), vector_id, q, vectors)
           s == SearchLayers(s0, Len(upper_layers), q)
       IN IF s.panic \/ \E i \in 1 .. Len(s.nearest) :
                          s.nearest[i].vector_id \notin DOMAIN data
          THEN [status |-> "panic", out |-> << >>]
          ELSE [status |-> "ok",
                out |-> TakeN([i \in 1 .. Len(s.nearest) |->
                                 MapResult(s.nearest[i])], n)]

Search(q, n) ==
  /\ Usable
  /\ UNCHANGED side
  /\ ret' = Ret("search", search(q, n).status, n, [vector |-> q, data |-> "-"],
                search(q, n).out)
  /\ UNCHANGED <<store, graph>>

Next ==
  \/ \E records \in BuildInputs : \E rank \in Ranks(Len(records)) :
       Build(records, rank)
  \/ \E record \in Records : Insert(record)
  \/ \E id \in Ids : Delete(id)
  \/ \E id \in Ids, record \in Records : Update(id, record)
  \/ \E id \in Ids : Get(id)
  \/ \E q \in Queries, n \in 0 .. MaxN : Search(q, n)

Spec == Init /\ [][Next]_vars

\* ------------------------------------------------------------------------
\* The key-value server handling requests
\* ------------------------------------------------------------------------
collection == <<store, graph, ret>>

Handle(req) ==
  /\ request' = req
  /\ response' = handler(kv, req).response
  /\ kv' = handler(kv, req).kv
  /\ UNCHANGED <<collection, par, ix, tcp>>

KvsNext == \E req \in Requests : Handle(req)

KvsSpec == Init /\ [][KvsNext]_vars

\* ------------------------------------------------------------------------
\* Bulk build, task by task (Collection::build, IndexGraph::build)
\* ------------------------------------------------------------------------
\* Both constructors run the same layer loop; IndexConstruction::insert of
\* ix/index.rs holds the exclusive lock of its own node from its first
\* statement to its return, the one of func/collection.rs takes every lock
\* for one statement only. A lock taken and released within one statement
\* is one step, enabled when the lock is free.
Modes == {"collection", "index"}

Coords == {0, 1}

\* The vector lists given to build: up to MaxBuild points 0 or 1, the first
\* at 0 (the lists that begin with 1 are their mirror images).
ParInputs ==
  UNION {{f \in [1 .. n -> Coords] : f[1] = 0} : n \in 1 .. MaxBuild}

ParVecs == [i \in 0 .. Len(input) - 1 |-> <<input[i + 1]>>]

ParRanges == Ranges(Len(input))

ParTop == Len(ParRanges) - 1

RangeIds(r) == r.start .. r.end - 1

\* The layer an id is started at: the layer of the range that holds it.
LayerOfId(v) ==
  LET r == CHOOSE q \in 1 .. Len(ParRanges) : v \in RangeIds(ParRanges[q])
  IN ParRanges[r].layer

IdleTask(layer) ==
  [pc |-> "idle", layer |-> layer, starts |-> 0, s |-> NewSearch(UpperEf),
   cands |-> << >>, i |-> 0, idx |-> 0]

ParInit ==
  /\ mode \in Modes
  /\ input \in ParInputs
  /\ nodes = [i \in 1 .. Len(input) |-> DefaultNode]
  /\ par_layers = [i \in 1 .. ParTop |-> << >>]
  /\ range_ix = 1
  /\ tasks = [v \in 1 .. Len(input) - 1 |-> IdleTask(LayerOfId(v))]
  /\ held = {}
  /\ started = {}
  /\ slots = << >> /\ vectors = EmptyMap /\ data = EmptyMap
  /\ base_layer = << >> /\ upper_layers = << >>
  /\ count = 0 /\ dimension = 0
  /\ ret = Ret("new", "ok", INVALID, NoRecord, << >>)
  /\ KvsInit
  /\ IxIdle
  /\ TcpIdle

Running == range_ix <= Len(ParRanges)

CurrentRange == ParRanges[range_ix]

\* The top layer of ix/index.rs is started by a sequential iterator.
Sequential == mode = "index" /\ CurrentRange.layer = ParTop

\* A task that keeps its own node locked for ever.
Release_Never(locks, v) == locks

\* The exclusive guard of the task's own node is dropped at its return.
Release(locks, v) == locks \ {v}

ParFrame == UNCHANGED <<collection, kvs, ix, tcp, mode, input>>

\* The task of id v may start: its range is being placed (ix/index.rs takes
\* the exclusive lock of node v here; no other task ever takes it for more
\* than one statement).
CanStart(v) ==
  /\ Running
  /\ v \in RangeIds(CurrentRange)
  /\ tasks[v].pc = "idle"
  /\ Sequential => \A u \in RangeIds(CurrentRange) : u < v => tasks[u].pc = "done"

\* The rounds of the loop over top_layer.descend() above the task's layer:
\* each upper layer (a plain vector, read without locks) is searched and
\* the search culled; then ef is set for the base-layer search.
RECURSIVE WalkUpper(_, _, _, _)
WalkUpper(s, k, layer, vector) ==
  IF s.panic THEN s
  ELSE IF Descend(ParTop)[k] > layer
  THEN WalkUpper(SCull(SSearch(s, par_layers[Descend(ParTop)[k]], vector,
                               ParVecs, M)),
                 k + 1, layer, vector)
  ELSE [s EXCEPT !.ef = ef_construction]

\* The head of the loop over the candidates: after the last one the task
\* returns.
AfterLink(t) ==
  IF t.pc = "link" /\ t.i >= Len(t.cands) THEN [t EXCEPT !.pc = "done"] ELSE t

\* The head of the base-layer search loop: when the loop ends the
\* neighbours are selected and the loop over them begins.
AfterSearch(t) ==
  IF t.s.panic THEN [t EXCEPT !.pc = "panic"]
  ELSE IF SStops(t.s)
  THEN AfterLink([t EXCEPT !.cands = Take(SelectSimple(t.s), M), !.i = 0,
                           !.pc = "link"])
  ELSE [t EXCEPT !.pc = "search"]

\* The statements of insert up to the first read of a base node: the seed
\* is pushed and the upper layers are walked.
Begin(v) ==
  LET s == WalkUpper(SPush(NewSearch(UpperEf), ValidSeed(ParVecs), ParVecs[v],
                           ParVecs),
                     1, CurrentRange.layer, ParVecs[v])
  IN AfterSearch([tasks[v] EXCEPT !.s = s, !.starts = @ + 1])

Start(v) ==
  /\ CanStart(v)
  /\ tasks' = [tasks EXCEPT ![v] = Begin(v)]
  /\ held' = IF mode = "index" /\ Begin(v).pc \notin {"panic", "done"}
             THEN held \cup {v}
             ELSE held
  /\ started' = started \cup {[id |-> v, layer |-> CurrentRange.layer]}
  /\ UNCHANGED <<nodes, par_layers, range_ix>>
  /\ ParFrame

\* The base-layer search can go on: the shared lock of the nearest
\* candidate's node can be taken.
CanSearch(v) ==
  /\ tasks[v].pc = "search"
  /\ MinCandidate(tasks[v].s.candidates).vector_id \notin held

\* One iteration of the base-layer search: the node of the nearest candidate
\* is read under its shared lock.
SearchOnce(v) ==
  AfterSearch([tasks[v] EXCEPT !.s = SExpand(@, nodes, ParVecs[v], ParVecs, M)])

SearchStep(v) ==
  /\ CanSearch(v)
  /\ tasks' = [tasks EXCEPT ![v] = SearchOnce(v)]
  /\ held' = IF SearchOnce(v).pc \in {"done", "panic"} THEN Release(held, v)
             ELSE held
  /\ UNCHANGED <<nodes, par_layers, range_ix, started>>
  /\ ParFrame

\* The index at which the node of a candidate takes the new id, as the
\* binary search finds it on the list `node`.
IndexIn(node, cand) ==
  BinarySearchBy(node, 0, M, cand.distance, ParVecs[cand.vector_id], ParVecs)

\* The candidate the loop of task v is at.
Cand(v) == tasks[v].cands[tasks[v].i + 1]

\* The shared lock of the candidate's node can be taken.
CanLink(v) == tasks[v].pc = "link" /\ Cand(v).vector_id \notin held

\* The insertion index is found under the shared lock of the candidate's
\* node.
LinkOnce(v) ==
  LET index == IndexIn(nodes[Cand(v).vector_id + 1], Cand(v))
  IN [tasks[v] EXCEPT !.idx = index,
                      !.pc = IF index < 0 THEN "panic" ELSE "insert"]

LinkStep(v) ==
  /\ CanLink(v)
  /\ tasks' = [tasks EXCEPT ![v] = LinkOnce(v)]
  /\ held' = IF LinkOnce(v).pc = "panic" THEN Release(held, v) ELSE held
  /\ UNCHANGED <<nodes, par_layers, range_ix, started>>
  /\ ParFrame

\* The exclusive lock of the candidate's node can be taken.
CanInsert(v) == tasks[v].pc = "insert" /\ Cand(v).vector_id \notin held

\* base_layer[vid].write().insert(index, vector_id)
InsertStep(v) ==
  /\ CanInsert(v)
  /\ nodes' = [nodes EXCEPT ![Cand(v).vector_id + 1] =
                 NodeInsert(@, tasks[v].idx, v)]
  /\ tasks' = [tasks EXCEPT ![v].pc = "set"]
  /\ UNCHANGED <<par_layers, range_ix, held, started>>
  /\ ParFrame

\* The task's own node can be written: through the guard it holds, or by
\* taking the exclusive lock.
CanSet(v) == tasks[v].pc = "set" /\ (mode = "collection" => v \notin held)

\* base_layer[vector_id].write().set(i, vector_id) / node.set(i, vector_id)
SetStep(v) ==
  /\ CanSet(v)
  /\ nodes' = [nodes EXCEPT ![v + 1] = NodeSet(@, tasks[v].i, v)]
  /\ tasks' = [tasks EXCEPT
                 ![v] = AfterLink([@ EXCEPT !.i = @ + 1, !.pc = "link"])]
  /\ held' = IF tasks'[v].pc = "done" THEN Release(held, v) ELSE held
  /\ UNCHANGED <<par_layers, range_ix, started>>
  /\ ParFrame

\* A parallel iterator that does not wait for its tasks.
RangeFinished_NoWait == TRUE

\* for_each returns: every task of the range has returned.
RangeFinished == \A v \in RangeIds(CurrentRange) : tasks[v].pc = "done"

\* The end of one round of the layer loop: the first `end` base nodes are
\* copied into the upper layer, and the next range begins.
CopyLayer ==
  /\ Running
  /\ RangeFinished
  /\ par_layers' = IF CurrentRange.layer # 0
               THEN [par_layers EXCEPT ![CurrentRange.layer] =
                       [j \in 1 .. CurrentRange.end |-> FromZero(nodes[j])]]
               ELSE par_layers
  /\ range_ix' = range_ix + 1
  /\ UNCHANGED <<nodes, tasks, held, started>>
  /\ ParFrame

ParNext ==
  \/ \E v \in DOMAIN tasks : Start(v)
  \/ \E v \in DOMAIN tasks : SearchStep(v)
  \/ \E v \in DOMAIN tasks : LinkStep(v)
  \/ \E v \in DOMAIN tasks : InsertStep(v)
  \/ \E v \in DOMAIN tasks : SetStep(v)
  \/ CopyLayer

ParSpec == ParInit /\ [][ParNext]_vars

\* ------------------------------------------------------------------------
\* IndexGraph::build: the relabelling (src/src/ix/index.rs)
\* ------------------------------------------------------------------------
\* The inputs: ix_len vectors and as many payloads; the payload of input
\* index i is i.
VectorsIn == [i \in 1 .. ix_len |-> <<(i - 1) % 2>>]
DataIn == [i \in 1 .. ix_len |-> i - 1]

\* Ord of (VectorID, usize): by the id, then by the index.
PairLess(a, b) == a[1] < b[1] \/ (a[1] = b[1] /\ a[2] < b[2])

\* Ordering of `sorted`: by the new id alone.
ByNewId(a, b) == a[2] < b[2]

\* sort_unstable and sort_unstable_by are SortSeq of the module TLC: the
\* sequences sorted have no two equal elements.

\* An output mapper that writes at the drawn id.
OutputIndex_Drawn(item) == item[1]

\* output_mapper((i, item.1)): the input index of a shuffled item.
OutputIndex(item) == item[2]

IxInit ==
  /\ ix_len \in 0 .. MaxBuild
  /\ draws = << >>
  /\ shuffled = << >>
  /\ output = << >>
  /\ ix_vectors = << >>
  /\ ix_data = << >>
  /\ ix_pc = IF ix_len = 0 THEN "done" ELSE "shuffle"
  /\ ix_result = NoResult
  /\ slots = << >> /\ vectors = EmptyMap /\ data = EmptyMap
  /\ base_layer = << >> /\ upper_layers = << >>
  /\ count = 0 /\ dimension = 0
  /\ ret = Ret("new", "ok", INVALID, NoRecord, << >>)
  /\ KvsInit
  /\ ParIdle
  /\ TcpIdle

IxFrame == UNCHANGED <<collection, kvs, par, tcp, ix_len>>

\* shuffler(i): one call of rng.gen_range(0..vectors.len()).
Shuffle(x) ==
  /\ ix_pc = "shuffle"
  /\ draws' = Append(draws, x)
  /\ shuffled' = Append(shuffled, <<x, Len(draws)>>)
  /\ ix_pc' = IF Len(draws') = ix_len THEN "sort" ELSE "shuffle"
  /\ UNCHANGED <<output, ix_vectors, ix_data, ix_result>>
  /\ IxFrame

\* shuffled.sort_unstable(); output = vec![INVALID; vectors.len()]
SortShuffled ==
  /\ ix_pc = "sort"
  /\ shuffled' = SortSeq(shuffled, PairLess)
  /\ output' = [i \in 1 .. ix_len |-> INVALID]
  /\ ix_pc' = "map"
  /\ UNCHANGED <<draws, ix_vectors, ix_data, ix_result>>
  /\ IxFrame

\* One item of the map over shuffled.into_iter().enumerate().
MapItem ==
  /\ ix_pc = "map"
  /\ LET i == Len(ix_vectors)
         index == OutputIndex(shuffled[i + 1])
     IN /\ output' = [output EXCEPT ![index + 1] = i]
        /\ ix_vectors' = Append(ix_vectors,
                                [vector |-> VectorsIn[index + 1], from |-> index])
  /\ ix_pc' = IF Len(ix_vectors') = ix_len THEN "data" ELSE "map"
  /\ UNCHANGED <<draws, shuffled, ix_data, ix_result>>
  /\ IxFrame

\* sorted = output.iter().enumerate() sorted by the new id; data[item.0]
Relabel ==
  /\ ix_pc = "data"
  /\ LET sorted == SortSeq([i \in 1 .. ix_len |-> <<i - 1, output[i]>>], ByNewId)
     IN ix_data' = [k \in 1 .. ix_len |-> DataIn[sorted[k][1] + 1]]
  /\ ix_pc' = "done"
  /\ UNCHANGED <<draws, shuffled, output, ix_vectors, ix_result>>
  /\ IxFrame

\* map_result of IndexGraph::search for a candidate of id k: the distance
\* is that of vectors[k], the payload is data[k].
MapCandidate(k) ==
  /\ ix_pc = "done"
  /\ k < Len(ix_vectors)
  /\ ix_result' = [id |-> k, data |-> ix_data[k + 1], from |-> ix_vectors[k + 1].from]
  /\ UNCHANGED <<draws, shuffled, output, ix_vectors, ix_data, ix_pc>>
  /\ IxFrame

IxNext ==
  \/ \E x \in 0 .. ix_len - 1 : Shuffle(x)
  \/ SortShuffled
  \/ MapItem
  \/ Relabel
  \/ \E k \in 0 .. MaxBuild - 1 : MapCandidate(k)

IxSpec == IxInit /\ [][IxNext]_vars

\* ------------------------------------------------------------------------
\* The TCP key-value server (src/src/db/server.rs)
\* ------------------------------------------------------------------------
Conns == 1 .. MaxConns

\* An Option<String> is a set of at most one string.
TcpCommands == {{}, {"set"}, {"get"}, {"GET"}, {"del"}}
TcpKeys == {{}, {"k"}}
TcpValues == {{}, {"v"}}

\* RequestBody: a JSON object of strings, by its three entries read.
Bodies == [command : TcpCommands, key : TcpKeys, value : TcpValues]

\* Data that from_str does not accept as a RequestBody.
Malformed == [command |-> {"{"}, key |-> {}, value |-> {}]

TcpRequests == Bodies \cup {Malformed}

\* str::to_lowercase on the commands sent.
to_lowercase(command) ==
  CASE command = "GET" -> "get"
    [] command = "SET" -> "set"
    [] OTHER -> command

\* ErrorResponse::new(code, msg).response()
TcpError(code) == [code |-> code, key |-> {}, value |-> {}]

\* to_string(&map) of the one-entry map
TcpOk(key, value) == [code |-> "ok", key |-> key, value |-> value]

handle_set(json) ==
  IF json.key = {} \/ json.value = {}
  THEN [response |-> TcpError("key_value_required"), kv |-> tcp_kv]
  ELSE LET key == CHOOSE k \in json.key : TRUE
           value == CHOOSE v \in json.value : TRUE
       IN [response |-> TcpOk(json.key, json.value),
           kv |-> MapPut(tcp_kv, key, value)]

handle_get(json) ==
  IF json.key = {}
  THEN [response |-> TcpError("key_required"), kv |-> tcp_kv]
  ELSE LET key == CHOOSE k \in json.key : TRUE
       IN IF key \notin DOMAIN tcp_kv
          THEN [response |-> TcpError("value_not_found"), kv |-> tcp_kv]
          ELSE [response |-> TcpOk(json.key, {tcp_kv[key]}), kv |-> tcp_kv]

\* The body of the loop of handle_connection for one request read.
TcpRespond(json) ==
  IF json.command = {}
  THEN [response |-> TcpError("command_required"), kv |-> tcp_kv]
  ELSE LET command == to_lowercase(CHOOSE c \in json.command : TRUE)
       IN CASE command = "set" -> handle_set(json)
            [] command = "get" -> handle_get(json)
            [] OTHER -> [response |-> TcpError("unrecognized_command"),
                         kv |-> tcp_kv]

NewConn == [state |-> "new", inbox |-> << >>, outbox |-> << >>, sent |-> 0]

\* Server::new, before serve is polled.
TcpInit ==
  /\ tcp_conns = [c \in Conns |-> NewConn]
  /\ backlog = << >>
  /\ serving = {}
  /\ tcp_kv = EmptyMap
  /\ spawned = 0
  /\ crashed = FALSE
  /\ slots = << >> /\ vectors = EmptyMap /\ data = EmptyMap
  /\ base_layer = << >> /\ upper_layers = << >>
  /\ count = 0 /\ dimension = 0
  /\ ret = Ret("new", "ok", INVALID, NoRecord, << >>)
  /\ KvsInit
  /\ ParIdle
  /\ IxIdle

TcpFrame == UNCHANGED <<collection, kvs, par, ix>>

\* A client opens a connection: the listener queues it.
Connect(c) ==
  /\ tcp_conns[c].state = "new"
  /\ tcp_conns' = [tcp_conns EXCEPT ![c].state = "open"]
  /\ backlog' = Append(backlog, c)
  /\ UNCHANGED <<serving, tcp_kv, spawned, crashed>>
  /\ TcpFrame

\* The client has sent a request that is not answered yet.
Waiting(c) == tcp_conns[c].inbox # << >>

\* A client writes one request on its open connection and waits for the
\* reply before it writes the next.
Send(c, req) ==
  /\ tcp_conns[c].state = "open"
  /\ ~Waiting(c)
  /\ tcp_conns[c].sent < MaxSends
  /\ tcp_conns' = [tcp_conns EXCEPT ![c].inbox = Append(@, req),
                                    ![c].sent = @ + 1]
  /\ UNCHANGED <<backlog, serving, tcp_kv, spawned, crashed>>
  /\ TcpFrame

\* A client with no request outstanding closes its connection.
Close(c) ==
  /\ tcp_conns[c].state = "open"
  /\ ~Waiting(c)
  /\ tcp_conns' = [tcp_conns EXCEPT ![c].state = "closed"]
  /\ UNCHANGED <<backlog, serving, tcp_kv, spawned, crashed>>
  /\ TcpFrame

\* serve() is at listner.accept(): the handler of the connection before
\* has been awaited to its end.
AcceptReady == ~crashed /\ serving = {}

\* listner.accept().await returns the oldest queued connection and
\* handle_connection(stream) is polled.
Accept ==
  /\ AcceptReady
  /\ backlog # << >>
  /\ serving' = serving \cup {Head(backlog)}
  /\ backlog' = Tail(backlog)
  /\ UNCHANGED <<tcp_conns, tcp_kv, spawned, crashed>>
  /\ TcpFrame

\* One round of the loop of handle_connection: a request is read; data
\* that is no RequestBody panics in unwrap, otherwise the reply is written.
Handle_Request(c) ==
  /\ ~crashed
  /\ c \in serving
  /\ Waiting(c)
  /\ LET json == Head(tcp_conns[c].inbox)
     IN IF json = Malformed
        THEN /\ crashed' = TRUE
             /\ tcp_conns' = [tcp_conns EXCEPT ![c].inbox = Tail(@)]
             /\ UNCHANGED tcp_kv
        ELSE /\ tcp_conns' = [tcp_conns EXCEPT
                                ![c].inbox = Tail(@),
                                ![c].outbox = Append(@, TcpRespond(json).response)]
             /\ tcp_kv' = TcpRespond(json).kv
             /\ UNCHANGED crashed
  /\ UNCHANGED <<backlog, serving, spawned>>
  /\ TcpFrame

\* The read returns no data: the client has disconnected, the loop breaks,
\* and serve() spawns the finished handler.
Disconnected(c) ==
  /\ ~crashed
  /\ c \in serving
  /\ ~Waiting(c)
  /\ tcp_conns[c].state = "closed"
  /\ serving' = serving \ {c}
  /\ spawned' = spawned + 1
  /\ UNCHANGED <<tcp_conns, backlog, tcp_kv, crashed>>
  /\ TcpFrame

ServerStep ==
  \/ Accept
  \/ \E c \in Conns : Handle_Request(c)
  \/ \E c \in Conns : Disconnected(c)

TcpNext ==
  \/ \E c \in Conns : Connect(c)
  \/ \E c \in Conns, req \in TcpRequests : Send(c, req)
  \/ \E c \in Conns : Close(c)
  \/ Accept
  \/ \E c \in Conns : Handle_Request(c)
  \/ \E c \in Conns : Disconnected(c)

\* The runtime keeps polling serve() while it can go on; no client is
\* obliged to send or to close.
TcpSpec == TcpInit /\ [][TcpNext]_vars /\ WF_vars(ServerStep)

\* ------------------------------------------------------------------------
\* Properties
\* ------------------------------------------------------------------------
Tombstones == {i \in 0 .. Len(slots) - 1 : slots[i + 1] = INVALID}

ResultIds(out) == {out[k].id : k \in 1 .. Len(out)}

\* C1: once delete(id) has succeeded (slot id is a tombstone), contains(id)
\* is false and every later search completes and returns no result with
\* that id.
C1_DeletedNeverFound ==
  \A i \in Tombstones :
    /\ ~contains(i)
    /\ ret.op = "search" => (ret.status = "ok" /\ i \notin ResultIds(ret.out))

\* C2: update(id, r2) on a live id returns success and afterwards get(id)
\* returns r2 under the same id.
C2_UpdateThenGet ==
  (ret.op = "update" /\ contains(ret.id)) =>
    (ret.status = "ok" /\ get(ret.id).out = <<ret.rec>>)

\* C3: a successful insert(r) on a slot table of length k makes get(k)
\* return r, and get(k) keeps its value across every later call that is
\* not an update or delete of k itself.
C3_InsertThenGet ==
  [][/\ \A k \in {Len(slots)} :
          (ret'.op = "insert" /\ ret'.status = "ok") =>
            (get(k)' = [status |-> "ok", out |-> <<ret'.rec>>])
     /\ \A k \in DOMAIN vectors :
          ~(ret'.op \in {"update", "delete"} /\ ret'.id = k) =>
            (get(k)' = get(k))]_vars

C3_Witness ==
  /\ ret.op = "insert" /\ ret.status = "ok"
  /\ Tombstones # {}
  /\ Cardinality(DOMAIN vectors) >= 2
  /\ get(ret.id).out = <<ret.rec>>

\* C4: each insert that registers a record gives it the id equal to the
\* slot-table length before the call, which is not INVALID; the slot table
\* never shrinks and a tombstone stays a tombstone, so ids are issued in
\* strictly increasing order and never reused.
C4_FreshIds ==
  [][/\ Len(slots') >= Len(slots)
     /\ \A i \in 1 .. Len(slots) : slots[i] = INVALID => slots'[i] = INVALID
     /\ (ret'.op = "insert" /\ ret'.status # "err") =>
          /\ Len(slots') = Len(slots) + 1
          /\ slots'[Len(slots')] = Len(slots)
          /\ (DOMAIN vectors') \ (DOMAIN vectors) = {Len(slots)}
          /\ is_valid(Len(slots))
     /\ (ret'.op # "insert" /\ ret'.op # "build") => Len(slots') = Len(slots)]_vars

C4_Witness ==
  /\ ret.op = "insert" /\ ret.status = "ok"
  /\ \E i \in Tombstones : i < ret.id
  /\ slots[Len(slots)] = ret.id

\* C5: len() equals the number of slot-table entries that are not INVALID.
C5_CountIsLiveSlots == len = Cardinality(ValidSlots)

C5_Witness ==
  /\ ret.op = "delete" /\ ret.status = "ok"
  /\ Tombstones # {} /\ count >= 1

\* C6: every slot i holds i or INVALID, and the vectors map and the data
\* map have the same key set, the live slots; so contains(id) is true
\* exactly for live slots.
C6_StoreConsistent ==
  /\ \A i \in 0 .. Len(slots) - 1 : slots[i + 1] \in {i, INVALID}
  /\ DOMAIN vectors = ValidSlots
  /\ DOMAIN data = ValidSlots
  /\ Cardinality(DOMAIN vectors) <= Len(slots)
  /\ \A id \in Ids : contains(id) <=> id \in ValidSlots

C6_Witness ==
  /\ ret.op = "insert" /\ ret.status = "ok"
  /\ Tombstones # {}
  /\ Cardinality(ValidSlots) >= 2

\* C7: an insert that passes the capacity and dimension checks completes
\* successfully, in every reachable state: it has assigned the next slot
\* and recorded the vector and the payload.
C7_InsertCompletes ==
  (ret.op = "insert" /\ ret.status # "err") =>
    /\ ret.status = "ok"
    /\ slots[Len(slots)] = ret.id
    /\ get(ret.id).out = <<ret.rec>>

\* C8: delete(id) of a live id returns success, in every reachable state:
\* the slot is a tombstone and the vector and the payload are removed (an
\* error is returned only for an id that is not live).
C8_DeleteCompletes ==
  ret.op = "delete" =>
    /\ ret.status \in {"ok", "err"}
    /\ ~contains(ret.id) /\ ret.id \notin DOMAIN data
    /\ ret.status = "ok" => slots[ret.id + 1] = INVALID

\* C9: with at least one live record, insert of a record whose vector
\* length differs from dimension() returns an error and leaves the store
\* and all layers unchanged.
C9_MismatchRejected ==
  [][(ret'.op = "insert" /\ vectors # EmptyMap
        /\ Len(ret'.rec.vector) # dimension) =>
       (ret'.status = "err" /\ UNCHANGED <<store, graph>>)]_vars

C9_Witness ==
  /\ ret.op = "insert" /\ ret.status = "err"
  /\ vectors # EmptyMap
  /\ Len(ret.rec.vector) # dimension
  /\ Len(slots) < U32_MAX

\* C10: once a record has been registered, dimension() never changes, and
\* an insert of another vector length fails with an error.
C10_DimensionFixed ==
  [][Len(slots) > 0 =>
       /\ dimension' = dimension
       /\ (ret'.op = "insert" /\ Len(ret'.rec.vector) # dimension) =>
            ret'.status = "err"]_vars


\* C11: every stored vector has length dimension().
C11_StoredDimension ==
  \A id \in DOMAIN vectors : Len(vectors[id]) = dimension

\* C12: delete(id), update(id, r) and get(id) on an id that is not live
\* return the not-found error and leave the store and all layers unchanged.
C12_NotFoundUnchanged ==
  [][(ret'.op \in {"delete", "update", "get"} /\ ret'.id \notin DOMAIN vectors) =>
       (ret'.status = "err" /\ UNCHANGED <<store, graph>>)]_vars

C12_Witness ==
  /\ ret.op = "delete" /\ ret.status = "err"
  /\ ret.id \in Tombstones
  /\ count >= 1

\* C13: an insert that does not complete successfully leaves slots,
\* vectors, data and count exactly as before the call.
C13_InsertRollback ==
  [][(ret'.op = "insert" /\ ret'.status # "ok") =>
       UNCHANGED <<slots, vectors, data, count>>]_vars


\* The entries of a node's list.
Entries(node) == {node[i] : i \in 1 .. Len(node)}

\* C14: for every live v, base_layer[v] contains no entry equal to v.
C14_NoSelfNeighbor ==
  \A v \in DOMAIN vectors : v \notin Entries(base_layer[v + 1])

\* C15: for every live v the valid entries of base_layer[v] are in
\* ascending order of distance from v, and the INVALID entries form a
\* contiguous tail.
C15_SortedNeighbors ==
  \A v \in DOMAIN vectors :
    LET node == base_layer[v + 1]
    IN /\ \A i, j \in 1 .. Len(node) :
            (i < j /\ node[i] \in DOMAIN vectors /\ node[j] \in DOMAIN vectors) =>
              Distance(vectors[v], vectors[node[i]])
                <= Distance(vectors[v], vectors[node[j]])
       /\ \A i, j \in 1 .. Len(node) :
            (i < j /\ ~is_valid(node[i])) => ~is_valid(node[j])

\* C16: if slots[i] is INVALID then no neighbour list of a live node, in
\* the base layer or in an upper layer, contains i.
C16_NoStaleNeighbor ==
  \A i \in Tombstones : \A v \in DOMAIN vectors :
    /\ i \notin Entries(base_layer[v + 1])
    /\ \A l \in 1 .. Len(upper_layers) :
         v < Len(upper_layers[l]) => i \notin Entries(upper_layers[l][v + 1])


\* The valid entries of a node's list, in list order.
ValidEntries(node) == SelectSeq(node, is_valid)

\* s is a subsequence of t (same relative order).
RECURSIVE IsSubSeq(_, _)
IsSubSeq(s, t) ==
  IF s = << >> THEN TRUE
  ELSE IF t = << >> THEN FALSE
  ELSE IF Head(s) = Head(t) THEN IsSubSeq(Tail(s), Tail(t))
  ELSE IsSubSeq(s, Tail(t))

\* C17: for every live v present in an upper layer, the valid entries of
\* its upper-layer node are a subset of the valid entries of base_layer[v],
\* in the same relative order.
C17_UpperSubsetOfBase ==
  \A l \in 1 .. Len(upper_layers) : \A v \in DOMAIN vectors :
    v < Len(upper_layers[l]) =>
      IsSubSeq(ValidEntries(upper_layers[l][v + 1]),
               ValidEntries(base_layer[v + 1]))

\* C18: the base layer has exactly one node per slot.
C18_BaseLayerDense == Len(base_layer) = Len(slots)


\* C19: a search that returns gives at most n results, by non-decreasing
\* distance to q, each a distinct live id with that id's payload and its
\* distance to q.
C19_SearchResults ==
  (ret.op = "search" /\ ret.status = "ok") =>
    LET out == ret.out
        q == ret.rec.vector
    IN /\ Len(out) <= ret.id
       /\ \A i, j \in 1 .. Len(out) : i < j =>
            /\ out[i].distance <= out[j].distance
            /\ out[i].id # out[j].id
       /\ \A i \in 1 .. Len(out) :
            /\ contains(out[i].id)
            /\ out[i].data = data[out[i].id]
            /\ out[i].distance = Distance(q, vectors[out[i].id])

C19_Witness ==
  /\ ret.op = "search" /\ ret.status = "ok"
  /\ ret.id = 1
  /\ Len(ret.out) = 1
  /\ Cardinality(DOMAIN vectors) >= 2
  /\ Tombstones # {}

\* The collection was filled by inserts only: every slot is live, one base
\* node per slot, no upper layers, and no more nodes than M, ef_construction
\* and ef_search.
SmallFilled ==
  /\ upper_layers = << >>
  /\ Tombstones = {}
  /\ Len(base_layer) = Len(slots)
  /\ Len(slots) <= Min2(M, Min2(ef_construction, ef_search))

\* C20: on a collection of k <= M live nodes without upper layers,
\* search(q, n) with n >= k returns each of the k ids exactly once, by
\* ascending exact distance to q.
C20_SmallExact ==
  (ret.op = "search" /\ SmallFilled /\ ret.id >= Len(slots)) =>
    /\ ret.status = "ok"
    /\ Len(ret.out) = Len(slots)
    /\ ResultIds(ret.out) = 0 .. Len(slots) - 1
    /\ \A i \in 1 .. Len(ret.out) :
         ret.out[i].distance = Distance(ret.rec.vector, vectors[ret.out[i].id])
    /\ \A i, j \in 1 .. Len(ret.out) : i < j =>
         ret.out[i].distance <= ret.out[j].distance

C20_Witness ==
  /\ ret.op = "search" /\ ret.status = "ok"
  /\ SmallFilled
  /\ Len(slots) = 2 /\ ret.id = 2
  /\ Len(ret.out) = 2
  /\ ret.out[1].id = 1



\* C21: search never returns an error: with no live record it returns the
\* empty list, and the "unable to initiate search" outcome is unreachable.
C21_SearchNeverErr ==
  ret.op = "search" =>
    /\ ret.status # "err"
    /\ (DOMAIN vectors = {} => (ret.status = "ok" /\ ret.out = << >>))

C21_Witness ==
  /\ ret.op = "search" /\ ret.status = "ok" /\ ret.out = << >>
  /\ ret.id >= 1
  /\ DOMAIN vectors = {}
  /\ Tombstones # {}


\* The records of a list all have the dimension of the first.
Consistent(records) ==
  \A i \in 1 .. Len(records) : Len(records[i].vector) = Len(records[1].vector)

\* Capacity bounded at `limit` entries: an insert of a record of the right
\* dimension is rejected exactly when the slot table holds `limit` entries
\* (a rejected insert leaves the state as it was, an accepted one has
\* appended one slot), and build rejects exactly the consistent lists of
\* `limit` or more records (ret.out of a build holds the records given).
CapacityBoundedAt(limit) ==
  /\ (ret.op = "insert" /\ ret.status = "err" /\ ~DimensionMismatch(ret.rec)) =>
       Len(slots) = limit
  /\ (ret.op = "insert" /\ ret.status # "err") => Len(slots) - 1 # limit
  /\ (ret.op = "build" /\ Consistent(ret.out)) =>
       (ret.status = "err" <=> Len(ret.out) >= limit)

\* C22 (as stated): capacity is bounded at 2^w entries.
C22_CapacityAtTwoToW == CapacityBoundedAt(U32_MAX + 1)

\* C22 (amended): capacity is bounded at 2^w - 1 entries: insert is rejected
\* with the capacity error exactly when the slot table holds 2^w - 1
\* entries, and build accepts exactly the record counts below 2^w - 1.
C22_CapacityAtU32Max == CapacityBoundedAt(U32_MAX)

C22_Witness ==
  /\ ret.op = "insert" /\ ret.status = "err"
  /\ Len(slots) = U32_MAX
  /\ Len(ret.rec.vector) = dimension
  /\ slots[U32_MAX] = U32_MAX - 1


\* The key named by a route, when the route has one.
HasKey(route) == Len(Split(route)) >= 3 /\ Last(Split(route)) # << >>

\* C23: the handler answers by request outcome: an accepted post of a string
\* key and a well-formed value gives 201 with the value; a get gives 200
\* with the stored value for a present key, 404 for an absent one and 400
\* for a missing key segment; other methods give the not-allowed response.
C23_HandlerOutcomes ==
  /\ (/\ request.method = "post"
      /\ request.body.key.kind = "string"
      /\ request.body.value.kind = "object"
      /\ request.body.value.embedding \in {"[0.0]", "[1.0]"}
      /\ request.body.value.data = "{}"
      /\ request.accepts) =>
       /\ response.status = "201"
       /\ response.body.embedding = request.body.value.embedding
       /\ response.body.data = request.body.value.data
       /\ request.body.key.str \in DOMAIN kv
  /\ request.method = "get" =>
       /\ (HasKey(request.route) /\ Last(Split(request.route)) \in DOMAIN kv) =>
            /\ response.status = "200"
            /\ response.body = to_string(kv[Last(Split(request.route))])
       /\ (HasKey(request.route) /\ Last(Split(request.route)) \notin DOMAIN kv) =>
            response.status = "404"
       /\ ~HasKey(request.route) => response.status = "400"
  /\ request.method \notin {"get", "post", "delete", "-"} =>
       response = NotAllowed

C23_Witness ==
  /\ request.method = "get" /\ response.status = "200"
  /\ Last(Split(request.route)) = <<"a">>
  /\ response.body.embedding = "[1.0]"


\* The build has run to its end.
BuildDone == ~Running


\* The number of rounds of the sizing loop that push a layer.
RECURSIVE Iterations(_)
Iterations(length) ==
  IF (length * MlNum) \div MlDen < M THEN 0
  ELSE 1 + Iterations((length * MlNum) \div MlDen)

StartedIds == {p.id : p \in started}

\* The ranges of every length partition 1 .. n-1 from the top layer down,
\* and the placements started so far are one for each id, in its range.
PlacedByRange ==
  /\ \A n \in 1 .. U32_MAX - 1 :
       LET r == Ranges(n)
       IN /\ Len(r) = Iterations(n) + 1
          /\ \A i \in 1 .. Len(r) : r[i].layer = Len(r) - i
          /\ \A i, j \in 1 .. Len(r) :
               i # j => RangeIds(r[i]) \cap RangeIds(r[j]) = {}
          /\ UNION {RangeIds(r[i]) : i \in 1 .. Len(r)} = 1 .. n - 1
  /\ \A v \in DOMAIN tasks : tasks[v].starts <= 1
  /\ \A p \in started :
       /\ p.id # 0
       /\ tasks[p.id].starts = 1
       /\ \A q \in started : q.id = p.id => q = p
       /\ \E i \in 1 .. Len(ParRanges) :
            /\ ParRanges[i].layer = p.layer
            /\ p.id \in RangeIds(ParRanges[i])
  /\ BuildDone => StartedIds = 1 .. Len(input) - 1

\* C24: the number of layers is the number of sizing-loop rounds plus one;
\* the ranges go from the top layer down, are pairwise disjoint and cover
\* exactly 1 .. N-1; every id but 0 is placed once, at the layer of its
\* range, no placement starts at a layer above one already started, and 0
\* is never placed.
C24_RangesPartition ==
  /\ []PlacedByRange
  /\ [][\A p \in started' \ started : \A q \in started : q.layer >= p.layer]_vars

C24_Witness ==
  /\ BuildDone
  /\ Len(input) = 4
  /\ Len(ParRanges) = 2
  /\ Cardinality(started) = 3

Active(v) == tasks[v].pc \notin {"idle", "done"}

\* C25: a task of a lower layer starts only after every task of each layer
\* above has returned and that layer's snapshot of the first `end` base
\* nodes is written; no upper layer changes while a task is running.
C25_LayerBarrier ==
  [][/\ \A v \in DOMAIN tasks : tasks[v].pc # "idle" =>
          \A i \in 1 .. Len(ParRanges) :
            ParRanges[i].layer > tasks[v].layer =>
              /\ \A u \in RangeIds(ParRanges[i]) : tasks[u].pc = "done"
              /\ Len(par_layers[ParRanges[i].layer]) = ParRanges[i].end
     /\ (\E v \in DOMAIN tasks : Active(v)) => par_layers' = par_layers]_vars

C25_Witness ==
  /\ ParTop = 1
  /\ \E v \in DOMAIN tasks :
       /\ tasks[v].layer = 0 /\ tasks[v].pc = "search"
       /\ \E i \in 1 .. M : is_valid(par_layers[1][1][i])

\* C26: the index a task found under the shared lock of a neighbour's node
\* is still the position the binary search gives when the task writes under
\* the exclusive lock.
C26_IndexStillValid ==
  \A v \in DOMAIN tasks :
    tasks[v].pc = "insert" =>
      LET cand == tasks[v].cands[tasks[v].i + 1]
      IN tasks[v].idx = IndexIn(nodes[cand.vector_id + 1], cand)

\* Some thread can take a step.
CanStep ==
  \/ \E v \in DOMAIN tasks :
       \/ CanStart(v)
       \/ CanSearch(v)
       \/ CanLink(v)
       \/ CanInsert(v)
       \/ CanSet(v)
  \/ (Running /\ RangeFinished)

\* How far a task is: the rounds of its search (each takes one candidate
\* and visits the nodes it adds), then three steps for each neighbour.
Rank(t) ==
  LET b == 2 * Len(input) + 2
  IN CASE t.pc = "idle" -> 0
       [] t.pc = "search" ->
            1 + 2 * Cardinality(t.s.visited) - Cardinality(t.s.candidates)
       [] t.pc = "link" -> b + 3 * t.i
       [] t.pc = "insert" -> b + 3 * t.i + 1
       [] t.pc = "set" -> b + 3 * t.i + 2
       [] OTHER -> b + 3 * M + 1

RECURSIVE SumRanks(_)
SumRanks(v) == IF v = 0 THEN 0 ELSE Rank(tasks[v]) + SumRanks(v - 1)

Progress == range_ix + SumRanks(Len(input) - 1)

\* C27: the build cannot deadlock on the node locks: in every reachable
\* state of either constructor, while the build has not ended some thread
\* can take a step, and every step takes the build further (Progress is
\* bounded), so every task finishes and the build ends.
C27_NoDeadlock ==
  /\ [](Running => CanStep)
  /\ [][Progress' > Progress]_vars

\* A task waits for the exclusive lock another task holds.
C27_Witness ==
  /\ mode = "index"
  /\ \E v \in DOMAIN tasks :
       /\ tasks[v].pc = "search"
       /\ ~SStops(tasks[v].s)
       /\ MinCandidate(tasks[v].s.candidates).vector_id \in held \ {v}


\* The upper layers of the same shape with every node removed.
Hollow(uppers) == [l \in 1 .. Len(uppers) |-> << >>]

\* C28: a call of insert or update leaves the number of upper layers, the
\* length of every upper layer and every upper-layer node other than the
\* row of the call's id as they were, and the base layer an insert leaves
\* is the one its placement finds without reading any upper layer.
C28_UpperLayersKept ==
  [][ret'.op \in {"insert", "update"} =>
       /\ Len(upper_layers') = Len(upper_layers)
       /\ \A l \in 1 .. Len(upper_layers) :
            /\ Len(upper_layers'[l]) = Len(upper_layers[l])
            /\ \A j \in 1 .. Len(upper_layers[l]) :
                 j # ret'.id + 1 => upper_layers'[l][j] = upper_layers[l][j]
       /\ (ret'.op = "insert" /\ ret'.status = "ok") =>
            base_layer' = insert_to_layers(base_layer, Hollow(upper_layers),
                                           vectors', ret'.id).base]_vars

\* An update has cleared the id's own row of an upper layer.
C28_Witness ==
  /\ ret.op = "update" /\ ret.status = "ok"
  /\ upper_layers # << >>
  /\ \E j \in 1 .. Len(upper_layers[1]) :
       j = ret.id + 1 /\ \A i \in 1 .. M : upper_layers[1][j][i] # ret.id


\* Two sequences differ at most at position j.
SameBut(a, b, j) ==
  /\ Len(a) = Len(b)
  /\ \A i \in 1 .. Len(a) : i # j => a[i] = b[i]

\* Two maps differ at most at key k, which the second may lack.
SameButKey(m, n, k) ==
  /\ DOMAIN n \subseteq DOMAIN m
  /\ (DOMAIN m) \ {k} \subseteq DOMAIN n
  /\ \A x \in (DOMAIN n) \ {k} : n[x] = m[x]

\* C29: a call of delete(id) changes at most row id of the base layer and of
\* each upper layer, the vector and payload of id, slot id and count; every
\* other row, vector, payload and slot is as it was.
C29_DeleteFrame ==
  [][ret'.op = "delete" =>
       /\ SameBut(base_layer, base_layer', ret'.id + 1)
       /\ Len(upper_layers') = Len(upper_layers)
       /\ \A l \in 1 .. Len(upper_layers) :
            SameBut(upper_layers[l], upper_layers'[l], ret'.id + 1)
       /\ SameButKey(vectors, vectors', ret'.id)
       /\ SameButKey(data, data', ret'.id)
       /\ SameBut(slots, slots', ret'.id + 1)
       /\ dimension' = dimension]_vars

\* A delete has left the id in the row of another node.
C29_Witness ==
  /\ ret.op = "delete" /\ ret.status = "ok"
  /\ ~contains(ret.id)
  /\ slots[ret.id + 1] = INVALID
  /\ \E j \in 1 .. Len(base_layer) :
       j # ret.id + 1 /\ \E i \in 1 .. M : base_layer[j][i] = ret.id


\* C30: for every sequence of random draws the relabelling is a permutation:
\* once the map over `shuffled` has run, every input index has one new id
\* in 0..N-1, none INVALID and no two equal; after build data[k] and
\* vectors[k] come from the same input index, whose new id is k, and a
\* search result carries the payload of the vector its distance is from.
C30_Relabelling ==
  /\ ix_pc \in {"data", "done"} =>
       /\ Len(output) = ix_len
       /\ \A i \in 1 .. ix_len : output[i] \in 0 .. ix_len - 1
       /\ \A i, j \in 1 .. ix_len : i # j => output[i] # output[j]
  /\ (ix_pc = "done" /\ ix_len > 0) =>
       /\ Len(ix_vectors) = ix_len
       /\ Len(ix_data) = ix_len
       /\ \A k \in 1 .. ix_len :
            /\ ix_data[k] = DataIn[ix_vectors[k].from + 1]
            /\ ix_vectors[k].vector = VectorsIn[ix_vectors[k].from + 1]
            /\ output[ix_vectors[k].from + 1] = k - 1
  /\ ix_result # NoResult => ix_result.data = DataIn[ix_result.from + 1]

\* A build whose draws collide and leave an id undrawn, searched afterwards.
C30_Witness ==
  /\ ix_pc = "done"
  /\ ix_len = 3
  /\ draws = <<2, 0, 2>>
  /\ ix_result # NoResult
  /\ ix_result.from # ix_result.id


\* C31: a well-formed request sent on a connection is answered in the end,
\* whatever the other connections do, one that stays open and idle
\* included (unless the server has panicked).
C31_EventuallyAnswered ==
  \A c \in Conns :
    (Waiting(c) /\ Head(tcp_conns[c].inbox) # Malformed) ~> (~Waiting(c) \/ crashed)

====
